---- MODULE Spec2Model ----
(***************************************************************************)
(* coax.td_learning.ClippedDoubleQLearning                                 *)
(* (src/coax/td_learning/_clippeddoubleqlearning.py)                       *)
(*                                                                         *)
(* Numbers.  Values (q-values, rewards Rn, targets G) are fixed-point     *)
(* integers in which 1.0 is written ONE; the bootstrap factor In is kept  *)
(* in hundredths (0.99 is 99); a weight of an action distribution is kept *)
(* in units of 1/WeightOne, WeightOne being divisible by every possible   *)
(* number of tied actions, so that 1/k is the integer WeightOne \div k.   *)
(* With these units every product and quotient the code forms on the      *)
(* modelled inputs is exact.                                              *)
(***************************************************************************)
EXTENDS Integers, Sequences, FiniteSets, TLC

\* ------------------------------------------------------------------ bounds
\* longest ensemble list (q_targ_list, pi_targ_list)
MaxList == 2
\* number of actions of the discrete action space
NActions == 2
\* rows of a transition batch
BatchSize == 1

VARIABLES self, heap, batch, ret

vars == <<self, heap, batch, ret>>

\* ----------------------------------------------------------- number helpers
RECURSIVE Gcd(_, _)
Gcd(a, b) == IF b = 0 THEN a ELSE Gcd(b, a % b)

RECURSIVE LcmUpTo(_)
LcmUpTo(n) == IF n <= 1 THEN 1 ELSE (LcmUpTo(n - 1) * n) \div Gcd(LcmUpTo(n - 1), n)

\* the weight 1.0 of an action distribution
WeightOne == LcmUpTo(NActions)

\* the value 1.0
ONE == 100 * WeightOne

Max(S) == CHOOSE x \in S : \A y \in S : y <= x
Min(S) == CHOOSE x \in S : \A y \in S : x <= y

\* a local variable: e is evaluated once and F applied to its value
Local(e, F(_)) == CHOOSE v \in {F(x) : x \in {e}} : TRUE

RECURSIVE SumTo(_, _)
\* f[1] + ... + f[n]
SumTo(f, n) == IF n = 0 THEN 0 ELSE f[n] + SumTo(f, n - 1)

\* --------------------------------------------------------------- the spaces
Actions == 1..NActions
\* representative actions of a non-discrete (Box) action space: -1.0 and 1.0
BoxActions == {0 - 1, 1}
\* observations; a batch row holds one as S and one as S_next
States == {0, 1}
Rows == 1..BatchSize
Vals == {ONE, 2 * ONE}
Rewards == {0, ONE}
\* In: 0 for a terminal S_next, else gamma^n (0.99)
Discounts == {0, 99}
Seeds == {<<0>>}
ValueTransforms == {"identity", "shift", "negate"}
LossFunctions == {"mse", "huber"}

Mirror(a) == NActions + 1 - a
Swap(b) == 0 - b

\* parameters of a tabular q-function on a Discrete space: one value per
\* observation and action (observation 1 sees the actions of observation 0
\* in reverse order)
QParams == {[s \in States |-> [a \in Actions |-> IF s = 0 THEN p[a] ELSE p[Mirror(a)]]] :
              p \in [Actions -> Vals]}
\* the same on a Box space
QBoxParams == {[s \in States |-> [a \in BoxActions |-> IF s = 0 THEN p[a] ELSE p[Swap(a)]]] :
              p \in [BoxActions -> Vals]}
\* parameters of a tabular policy on a Box space: the mode per observation
PiParams == {[s \in States |-> IF s = 0 THEN b ELSE Swap(b)] : b \in BoxActions}

\* the actions of the object's action space
BatchActions(discrete) ==
    IF discrete THEN Actions ELSE BoxActions

\* parameters of a q-function on the object's action space
QParamsOf(discrete) == IF discrete THEN QParams ELSE QBoxParams

\* ------------------------------------------------------------ collaborators
\* hk.PRNGSequence(rng): its k-th next(rngs)
NextKey(rng, k) == Append(rng, k)

\* the function state a collaborator evaluation returns
NewFunctionState(state) == state + 1

\* what training mode (dropout and the like) adds to a q-function's output
TrainingShift(is_training) == IF is_training THEN ONE ELSE 0

\* Q.function_type2(params, state, rng, S, is_training): a value per row and action
function_type2(params, state, rng, S, is_training) ==
    [out |-> [r \in DOMAIN S |->
                [a \in Actions |-> params[S[r]][a] + TrainingShift(is_training)]],
     state |-> NewFunctionState(state)]

\* the inner product of an action distribution and the per-action values
Dot(w, q) == SumTo([a \in Actions |-> w[a] * q[a]], NActions) \div WeightOne

\* Q.function_type1(params, state, rng, S, A, is_training): a value per row;
\* on a Discrete space A[r] is a distribution over the actions, on a Box
\* space it is an action
function_type1(discrete, params, state, rng, S, A, is_training) ==
    [out |-> [r \in DOMAIN S |->
                (IF discrete THEN Dot(A[r], params[S[r]]) ELSE params[S[r]][A[r]])
                + TrainingShift(is_training)],
     state |-> NewFunctionState(state)]

\* Policy.function(params, state, rng, S, is_training): distribution parameters per row
policy_function(params, state, rng, S, is_training) ==
    [out |-> [r \in DOMAIN S |-> params[S[r]]],
     state |-> NewFunctionState(state)]

\* Policy.proba_dist.mode(dist_params)
mode(dist_params) == dist_params

\* value_transform = (f, f_inv)
f(vt, x) == CASE vt = "identity" -> x
              [] vt = "shift" -> x + ONE
              [] vt = "negate" -> 0 - x

f_inv(vt, x) == CASE vt = "identity" -> x
                  [] vt = "shift" -> x - ONE
                  [] vt = "negate" -> 0 - x

\* In * x, In in hundredths
Times(In, x) == (In * x) \div 100

\* -------------------------------------------------------------- target_func
\* zip(list, target_params[...], target_state[...])
Zip(list, params, states) ==
    [k \in 1..Min({Len(list), Len(params), Len(states)}) |->
        [obj |-> list[k], params |-> params[k], state |-> states[k]]]

\* (Q_s_next == Q_s_next.max(axis=1, keepdims=True)).astype(dtype)
IsMax(Q_s_next) ==
    [r \in DOMAIN Q_s_next |->
        [a \in Actions |->
            IF Q_s_next[r][a] = Max({Q_s_next[r][b] : b \in Actions}) THEN 1 ELSE 0]]

\* mutant of Normalize: the division by the row sum is left out
NormalizeSkipped(A_next) ==
    [r \in DOMAIN A_next |-> [a \in Actions |-> A_next[r][a] * WeightOne]]

\* A_next /= A_next.sum(axis=1, keepdims=True)
Normalize(A_next) ==
    [r \in DOMAIN A_next |->
        [a \in Actions |-> (A_next[r][a] * WeightOne) \div SumTo(A_next[r], NActions)]]

\* mutant of GreedyDist: argmax, a one-hot vector on the first maximising action
GreedyOneHot(Q_s_next) ==
    [r \in DOMAIN Q_s_next |->
        [a \in Actions |->
            IF a = Min({b \in Actions : IsMax(Q_s_next)[r][b] = 1}) THEN WeightOne ELSE 0]]

\* the next-action distribution of one target q-function
GreedyDist(Q_s_next) == Normalize(IsMax(Q_s_next))

\* one collaborator call: its sub-seed and what was called
Draw(kind, form, index, key) == [kind |-> kind, form |-> form, index |-> index, key |-> key]

RECURSIVE EvaluateOnSharedKey(_, _, _, _, _, _, _)
\* mutant of EvaluateOn: every evaluator gets the sub-seed drawn last
EvaluateOnSharedKey(discrete, qs, j, S_next, A_next, rng, acc) ==
    IF j > Len(qs) THEN acc
    ELSE LET key == NextKey(rng, acc.drawn)
             Q_sa_next == function_type1(discrete, qs[j].params, qs[j].state, key,
                                         S_next, A_next, FALSE)
         IN  EvaluateOnSharedKey(discrete, qs, j + 1, S_next, A_next, rng,
                 [acc EXCEPT !.Q_sa_next_list = Append(@, Q_sa_next.out),
                             !.draws = Append(@, Draw("q_targ", "type1", j, key)),
                             !.returned = Append(@, <<qs[j].obj, Q_sa_next.state>>)])

RECURSIVE EvaluateOn(_, _, _, _, _, _, _)
\* for q_j, params_j, state_j in qs: Q_sa_next_list.append(q_j.function_type1(...))
\* acc: the list so far, the sub-seeds drawn so far, the draws so far, the
\* function states the collaborators returned so far
EvaluateOn(discrete, qs, j, S_next, A_next, rng, acc) ==
    IF j > Len(qs) THEN acc
    ELSE LET key == NextKey(rng, acc.drawn + 1)
             Q_sa_next == function_type1(discrete, qs[j].params, qs[j].state, key,
                                         S_next, A_next, FALSE)
         IN  EvaluateOn(discrete, qs, j + 1, S_next, A_next, rng,
                 [acc EXCEPT !.Q_sa_next_list = Append(@, Q_sa_next.out),
                             !.drawn = @ + 1,
                             !.draws = Append(@, Draw("q_targ", "type1", j, key)),
                             !.returned = Append(@, <<qs[j].obj, Q_sa_next.state>>)])

RECURSIVE DiscreteBranchOwn(_, _, _, _, _)
\* mutant of DiscreteBranch: the action of q_i is evaluated on q_i alone
DiscreteBranchOwn(qs, i, S_next, rng, acc) ==
    IF i > Len(qs) THEN acc
    ELSE LET key == NextKey(rng, acc.drawn + 1)
             Q_s_next == function_type2(qs[i].params, qs[i].state, key, S_next, FALSE)
             A_next == GreedyDist(Q_s_next.out)
             acc1 == [acc EXCEPT !.drawn = @ + 1,
                                 !.draws = Append(@, Draw("q_targ", "type2", i, key)),
                                 !.A_next_list = Append(@, A_next),
                                 !.returned = Append(@, <<qs[i].obj, Q_s_next.state>>)]
         IN  DiscreteBranchOwn(qs, i + 1, S_next, rng,
                 EvaluateOn(TRUE, <<qs[i]>>, 1, S_next, A_next, rng, acc1))

RECURSIVE DiscreteBranch(_, _, _, _, _)
\* for q_i, params_i, state_i in qs: A_next from q_i, then evaluate on every q_j
DiscreteBranch(qs, i, S_next, rng, acc) ==
    IF i > Len(qs) THEN acc
    ELSE LET key == NextKey(rng, acc.drawn + 1)
             Q_s_next == function_type2(qs[i].params, qs[i].state, key, S_next, FALSE)
             A_next == GreedyDist(Q_s_next.out)
             acc1 == [acc EXCEPT !.drawn = @ + 1,
                                 !.draws = Append(@, Draw("q_targ", "type2", i, key)),
                                 !.A_next_list = Append(@, A_next),
                                 !.returned = Append(@, <<qs[i].obj, Q_s_next.state>>)]
         IN  DiscreteBranch(qs, i + 1, S_next, rng,
                 EvaluateOn(TRUE, qs, 1, S_next, A_next, rng, acc1))

RECURSIVE ContinuousBranch(_, _, _, _, _, _)
\* for pi_i, params_i, state_i in pis: A_next = mode of pi_i, then evaluate on every q_j
ContinuousBranch(pis, qs, i, S_next, rng, acc) ==
    IF i > Len(pis) THEN acc
    ELSE LET key == NextKey(rng, acc.drawn + 1)
             dist_params == policy_function(pis[i].params, pis[i].state, key, S_next, FALSE)
             A_next == mode(dist_params.out)
             acc1 == [acc EXCEPT !.drawn = @ + 1,
                                 !.draws = Append(@, Draw("pi_targ", "function", i, key)),
                                 !.A_next_list = Append(@, A_next),
                                 !.returned = Append(@, <<pis[i].obj, dist_params.state>>)]
         IN  ContinuousBranch(pis, qs, i + 1, S_next, rng,
                 EvaluateOn(FALSE, qs, 1, S_next, A_next, rng, acc1))

\* mutant of MinOverList: the maximum over the list
MaxOverList(Q_sa_next_list, rows) ==
    [r \in rows |-> Max({Q_sa_next_list[k][r] : k \in 1..Len(Q_sa_next_list)})]

\* jnp.min(jnp.stack(Q_sa_next_list, axis=-1), axis=-1)
MinOverList(Q_sa_next_list, rows) ==
    [r \in rows |-> Min({Q_sa_next_list[k][r] : k \in 1..Len(Q_sa_next_list)})]

\* mutant of Bootstrap: In is applied before the inverse transform
BootstrapInInside(vt, Rn, In, Q_sa_next) ==
    [r \in DOMAIN Rn |-> f(vt, Rn[r] + f_inv(vt, Times(In[r], Q_sa_next[r])))]

\* f(Rn + In * f_inv(Q_sa_next))
Bootstrap(vt, Rn, In, Q_sa_next) ==
    [r \in DOMAIN Rn |-> f(vt, Rn[r] + Times(In[r], f_inv(vt, Q_sa_next[r])))]

EmptyAcc == [Q_sa_next_list |-> <<>>, drawn |-> 0, draws |-> <<>>, A_next_list |-> <<>>,
             returned |-> <<>>]

\* ClippedDoubleQLearning.target_func; the value returned is G, the other
\* fields are its locals
target_func(obj, target_params, target_state, rng, transition_batch) ==
    LET Rn == transition_batch.Rn
        In == transition_batch.In
        S_next == transition_batch.S_next
        qs == Zip(obj.q_targ_list, target_params.q_targ, target_state.q_targ)
        pis == Zip(obj.pi_targ_list.items, target_params.pi_targ, target_state.pi_targ)
    IN  Local(IF obj.discrete
              THEN DiscreteBranch(qs, 1, S_next, rng, EmptyAcc)
              ELSE ContinuousBranch(pis, qs, 1, S_next, rng, EmptyAcc), LAMBDA acc :
            [G |-> Bootstrap(obj.value_transform, Rn, In,
                             MinOverList(acc.Q_sa_next_list, DOMAIN S_next)),
             Q_sa_next_list |-> acc.Q_sa_next_list,
             A_next_list |-> acc.A_next_list,
             draws |-> acc.draws,
             returned |-> acc.returned])

\* ------------------------------------------------------------- the objects
\* what a list argument or a list element can be
NoneArg == [tag |-> "None", items |-> <<>>]
\* some object that is neither a list nor a tuple
NotAList == [tag |-> "object", items |-> <<>>]
ListArg(items) == [tag |-> "list", items |-> items]

\* the online q-function, the target q-functions and the target policies
OnlineQ == <<"Q", 0>>
\* a list of n objects of one kind ("Q" or "Policy")
Ids(kind, n) == [k \in 1..n |-> <<kind, k>>]
\* an object that is neither a coax.Q nor a coax.Policy
Other == <<"other", 0>>
ObjIds == {<<"Q", k>> : k \in 0..MaxList} \cup {<<"Policy", k>> : k \in 1..MaxList}

\* isinstance(x, Q), isinstance(x, Policy)
IsQ(x) == x[1] = "Q"
IsPolicy(x) == x[1] = "Policy"
\* isinstance(x, (tuple, list))
IsList(x) == x.tag = "list"

\* ------------------------------------------------------------- construction
\* ClippedDoubleQLearning._check_input_lists: the error raised ("none" when
\* it returns) and whether it warned
_check_input_lists(discrete, pi_targ_list, q_targ_list) ==
    LET pi_check ==
            IF discrete THEN "none"
            ELSE IF pi_targ_list = NoneArg THEN "TypeError"
            ELSE IF ~IsList(pi_targ_list) THEN "TypeError"
            ELSE IF Len(pi_targ_list.items) < 1 THEN "ValueError"
            ELSE IF \E k \in 1..Len(pi_targ_list.items) : ~IsPolicy(pi_targ_list.items[k])
                 THEN "TypeError"
            ELSE "none"
        q_check ==
            IF ~IsList(q_targ_list) THEN "TypeError"
            ELSE IF Len(q_targ_list.items) = 0 THEN "ValueError"
            ELSE IF \E k \in 1..Len(q_targ_list.items) : ~IsQ(q_targ_list.items[k])
                 THEN "TypeError"
            ELSE "none"
    IN  [error |-> IF pi_check # "none" THEN pi_check ELSE q_check,
         warned |-> discrete /\ pi_targ_list # NoneArg]

\* mutant of ConsistencyCheck: a Discrete space accepts a single target q-function
ConsistencyCheckOffByOne(discrete, q_targ_list, pi_targ_list) ==
    IF discrete
    THEN IF Len(q_targ_list.items) < 1 THEN "ValueError" ELSE "none"
    ELSE IF Len(q_targ_list.items) * Len(pi_targ_list.items) < 2 THEN "ValueError"
    ELSE "none"

\* the consistency check of __init__: the error raised ("none" when it passes)
ConsistencyCheck(discrete, q_targ_list, pi_targ_list) ==
    IF discrete
    THEN IF Len(q_targ_list.items) < 2 THEN "ValueError" ELSE "none"
    ELSE IF Len(q_targ_list.items) * Len(pi_targ_list.items) < 2 THEN "ValueError"
    ELSE "none"

\* no object: the constructor raised
Raised(error, warned) ==
    [status |-> "raised", error |-> error, warned |-> warned]

\* ClippedDoubleQLearning.__init__ on a q whose action space is Discrete or
\* not; has_f_targ: whether the attribute _f_targ of the base class is kept
__init__(discrete, pi_targ_list, q_targ_list, loss_function, value_transform) ==
    LET checked == _check_input_lists(discrete, pi_targ_list, q_targ_list)
        stored_pi == IF pi_targ_list = NoneArg THEN ListArg(<<>>) ELSE pi_targ_list
        consistent == ConsistencyCheck(discrete, q_targ_list, stored_pi)
    IN  IF checked.error # "none" THEN Raised(checked.error, checked.warned)
        ELSE IF consistent # "none" THEN Raised(consistent, checked.warned)
        ELSE [status |-> "ok", error |-> "none", warned |-> checked.warned,
              discrete |-> discrete,
              q |-> OnlineQ,
              has_f_targ |-> FALSE,
              q_targ_list |-> q_targ_list.items,
              pi_targ_list |-> stored_pi,
              loss_function |-> loss_function,
              value_transform |-> value_transform]

\* the object before construction
NoObject == [status |-> "none", error |-> "none", warned |-> FALSE]

\* the target_params property; reading it raises when pi_targ_list cannot
\* be iterated or holds an element without params
target_params(obj, h) ==
    IF ~IsList(obj.pi_targ_list) THEN [error |-> "TypeError"]
    ELSE IF \E k \in 1..Len(obj.pi_targ_list.items) : obj.pi_targ_list.items[k] = Other
         THEN [error |-> "AttributeError"]
    ELSE [error |-> "none",
          q |-> h[obj.q].params,
          q_targ |-> [k \in 1..Len(obj.q_targ_list) |-> h[obj.q_targ_list[k]].params],
          pi_targ |-> [k \in 1..Len(obj.pi_targ_list.items) |->
                         h[obj.pi_targ_list.items[k]].params]]

\* the target_function_state property
target_function_state(obj, h) ==
    IF ~IsList(obj.pi_targ_list) THEN [error |-> "TypeError"]
    ELSE IF \E k \in 1..Len(obj.pi_targ_list.items) : obj.pi_targ_list.items[k] = Other
         THEN [error |-> "AttributeError"]
    ELSE [error |-> "none",
          q |-> h[obj.q].function_state,
          q_targ |-> [k \in 1..Len(obj.q_targ_list) |-> h[obj.q_targ_list[k]].function_state],
          pi_targ |-> [k \in 1..Len(obj.pi_targ_list.items) |->
                         h[obj.pi_targ_list.items[k]].function_state]]

\* ------------------------------------------------- the other entry points
\* q.action_preprocessor(A): one-hot on a Discrete space
action_preprocessor(discrete, A) ==
    IF discrete
    THEN [r \in DOMAIN A |-> [a \in Actions |-> IF a = A[r] THEN WeightOne ELSE 0]]
    ELSE A

Abs(x) == IF x < 0 THEN 0 - x ELSE x
Clip(x, lo, hi) == IF x < lo THEN lo ELSE IF x > hi THEN hi ELSE x

\* loss_function(y_true, y_pred): "mse" is the sum over the rows of
\* (y_pred - y_true)^2 / 2, "huber" the Huber loss with delta = 1.0
loss_function(lf, G, Q) ==
    SumTo([r \in 1..BatchSize |->
             LET e == Q[r] - G[r]
             IN  IF lf = "mse" \/ Abs(e) <= ONE THEN (e * e) \div 2
                 ELSE ONE * Abs(e) - (ONE * ONE) \div 2], BatchSize)

\* jax.grad(loss_function, argnums=1)(G, Q)
dL_dQ(lf, G, Q) ==
    [r \in DOMAIN Q |->
        IF lf = "mse" THEN Q[r] - G[r] ELSE Clip(Q[r] - G[r], 0 - ONE, ONE)]

\* loss_func(params, target_params, state, target_state, rng, transition_batch)
loss_func(obj, params, tparams, state, tstate, rng, transition_batch) ==
    Local(action_preprocessor(obj.discrete, transition_batch.A), LAMBDA A :
    Local(target_func(obj, tparams, tstate, NextKey(rng, 1), transition_batch), LAMBDA T :
    Local(function_type1(obj.discrete, params, state, NextKey(rng, 2),
                         transition_batch.S, A, TRUE), LAMBDA Qc :
        [loss |-> loss_function(obj.loss_function, T.G, Qc.out),
         G |-> T.G, Q |-> Qc.out, S |-> transition_batch.S, A |-> A,
         state_new |-> Qc.state,
         draws |-> T.draws \o <<Draw("q", "type1", 0, NextKey(rng, 2))>>,
         returned |-> T.returned \o <<<<obj.q, Qc.state>>>>])))

\* jax.grad(loss_func, has_aux=True): the derivative of the loss with respect
\* to each entry of the online parameters, the target held constant
Grads(obj, L) ==
    Local(dL_dQ(obj.loss_function, L.G, L.Q), LAMBDA d :
        [s \in States |->
            [a \in BatchActions(obj.discrete) |->
                SumTo([r \in 1..BatchSize |->
                         IF L.S[r] # s THEN 0
                         ELSE IF obj.discrete THEN (d[r] * L.A[r][a]) \div WeightOne
                         ELSE IF L.A[r] = a THEN d[r] ELSE 0],
                      BatchSize)]])

\* the target-network estimate of grads_and_metrics_func:
\* for q, pm, st in qs: Q_targ_list.append(q.function_type1(pm, st, next(rngs), S, A, False))
TargetEstimates(obj, qs, S, A, rng) ==
    EvaluateOn(obj.discrete, qs, 1, S, A, rng, [EmptyAcc EXCEPT !.drawn = 1])

\* grads_and_metrics_func(params, target_params, state, target_state, rng,
\* transition_batch); a mean is kept as <<sum, count>>, a root of a mean of
\* squares as <<sum of squares, count>>; the diagnostics of the gradients
\* that get_grads_diagnostics adds to the metrics are left out
grads_and_metrics_func(obj, params, tparams, state, tstate, rng, transition_batch) ==
    Local(loss_func(obj, params, tparams, state, tstate, NextKey(rng, 1), transition_batch),
          LAMBDA L :
    Local(TargetEstimates(obj, Zip(obj.q_targ_list, tparams.q_targ, tstate.q_targ),
                          L.S, L.A, rng), LAMBDA E :
    Local(MinOverList(E.Q_sa_next_list, DOMAIN L.S), LAMBDA Q_targ :
    Local([r \in 1..BatchSize |-> L.Q[r] - L.G[r]], LAMBDA err :
    Local([r \in 1..BatchSize |-> Q_targ[r] - L.Q[r]], LAMBDA err_targ :
        [grads |-> Grads(obj, L),
         state_new |-> L.state_new,
         metrics |-> [loss |-> L.loss,
                      bias |-> <<SumTo(err, BatchSize), BatchSize>>,
                      rmse |-> <<SumTo([r \in 1..BatchSize |-> err[r] * err[r]], BatchSize),
                                 BatchSize>>,
                      bias_targ |-> <<SumTo(err_targ, BatchSize), BatchSize>>,
                      rmse_targ |-> <<SumTo([r \in 1..BatchSize |-> err_targ[r] * err_targ[r]],
                                            BatchSize), BatchSize>>],
         G |-> L.G, Q |-> L.Q,
         loss_rng |-> NextKey(rng, 1),
         draws |-> L.draws \o E.draws,
         returned |-> L.returned \o E.returned])))))

\* mutant of td_error_func: the raw residual G - Q
td_error_residual(obj, params, tparams, state, tstate, rng, transition_batch) ==
    Local(action_preprocessor(obj.discrete, transition_batch.A), LAMBDA A :
    Local(target_func(obj, tparams, tstate, NextKey(rng, 1), transition_batch), LAMBDA T :
    Local(function_type1(obj.discrete, params, state, NextKey(rng, 2),
                         transition_batch.S, A, FALSE), LAMBDA Qc :
        [td |-> [r \in DOMAIN Qc.out |-> T.G[r] - Qc.out[r]],
         G |-> T.G, Q |-> Qc.out,
         draws |-> T.draws \o <<Draw("q", "type1", 0, NextKey(rng, 2))>>,
         returned |-> T.returned \o <<<<obj.q, Qc.state>>>>])))

\* td_error_func(params, target_params, state, target_state, rng, transition_batch)
td_error_func(obj, params, tparams, state, tstate, rng, transition_batch) ==
    Local(action_preprocessor(obj.discrete, transition_batch.A), LAMBDA A :
    Local(target_func(obj, tparams, tstate, NextKey(rng, 1), transition_batch), LAMBDA T :
    Local(function_type1(obj.discrete, params, state, NextKey(rng, 2),
                         transition_batch.S, A, FALSE), LAMBDA Qc :
    Local(dL_dQ(obj.loss_function, T.G, Qc.out), LAMBDA d :
        [td |-> [r \in DOMAIN Qc.out |-> 0 - d[r]],
         G |-> T.G, Q |-> Qc.out,
         draws |-> T.draws \o <<Draw("q", "type1", 0, NextKey(rng, 2))>>,
         returned |-> T.returned \o <<<<obj.q, Qc.state>>>>]))))

\* opt.update(grads, opt_state) of plain gradient descent with step size
\* 1: the updates and the new optimizer state (a step count)
opt_update(grads, opt_state) ==
    [updates |-> [s \in DOMAIN grads |-> [a \in DOMAIN grads[s] |-> 0 - grads[s][a]]],
     new_opt_state |-> opt_state + 1]

\* optax.apply_updates(params, updates)
apply_updates(params, updates) ==
    [s \in DOMAIN params |-> [a \in DOMAIN params[s] |-> params[s][a] + updates[s][a]]]

\* apply_grads_func(opt, opt_state, params, grads)
apply_grads_func(opt_state, params, grads) ==
    LET u == opt_update(grads, opt_state)
    IN  [new_opt_state |-> u.new_opt_state,
         new_params |-> apply_updates(params, u.updates)]

RECURSIVE StoreStates(_, _)
\* mutant of DiscardStates: the function states the collaborators returned
\* are written back to the objects
StoreStates(h, returned) ==
    IF returned = <<>> THEN h
    ELSE StoreStates([h EXCEPT ![returned[1][1]].function_state = returned[1][2]],
                     Tail(returned))

\* the function states the collaborators return are bound to _ or handed
\* to the caller; the objects keep theirs
DiscardStates(h, returned) == h

\* --------------------------------------------------- the target computation
NoCall == [entry |-> "none"]

\* the batches target_func is applied to: S and A fixed (it reads neither),
\* the observations S_next alternating from row to row
TargetBatches ==
    {[S |-> [r \in Rows |-> 0], A |-> [r \in Rows |-> 1],
      Rn |-> Rn, In |-> In, S_next |-> [r \in Rows |-> r % 2]] :
        Rn \in [Rows -> Rewards], In \in [Rows -> Discounts]}

\* every valid ensemble, with the parameters of its members, and a batch
InitTarget ==
    \E discrete \in BOOLEAN, n \in 1..MaxList, m \in 0..MaxList, vt \in ValueTransforms :
        /\ discrete => m = 0
        /\ self = __init__(discrete, IF discrete THEN NoneArg ELSE ListArg(Ids("Policy", m)),
                           ListArg(Ids("Q", n)), "mse", vt)
        /\ self.status = "ok"
        /\ \E qp \in [1..n -> QParamsOf(discrete)], pp \in [1..m -> PiParams] :
              heap = [o \in ObjIds |->
                        [discrete |-> discrete,
                         params |-> IF IsQ(o) /\ o[2] \in 1..n THEN qp[o[2]]
                                    ELSE IF IsPolicy(o) /\ o[2] \in 1..m THEN pp[o[2]]
                                    ELSE IF IsQ(o)
                                         THEN [s \in States |->
                                                 [a \in BatchActions(discrete) |-> ONE]]
                                    ELSE [s \in States |-> 1],
                         function_state |-> 0]]
        /\ batch \in TargetBatches
        /\ ret = NoCall

\* a call of target_func with the object's own target bundle
TargetFuncCall ==
    /\ self.status = "ok"
    /\ target_params(self, heap).error = "none"
    /\ \E rng \in Seeds :
          ret' = [entry |-> "target_func", rng |-> rng,
                  out |-> target_func(self, target_params(self, heap),
                                      target_function_state(self, heap), rng, batch)]
    /\ heap' = DiscardStates(heap, ret'.out.returned)
    /\ UNCHANGED <<self, batch>>

NextTarget == TargetFuncCall

SpecTarget == InitTarget /\ [][NextTarget]_vars

\* ------------------------------------------------------------ the lifecycle
WrongKind(kind) == IF kind = "Q" THEN "Policy" ELSE "Q"

\* what is passed as q_targ_list (kind "Q") or pi_targ_list (kind "Policy"):
\* nothing, something that is no list, a list of up to MaxList objects of
\* the kind, or such a list with one element of another kind
ListArgs(kind) ==
    {NoneArg, NotAList}
    \cup {ListArg(Ids(kind, n)) : n \in 0..MaxList}
    \cup {ListArg([Ids(kind, n) EXCEPT ![k] = bad]) :
            n \in 1..MaxList, k \in 1..MaxList, bad \in {Other, <<WrongKind(kind), 1>>}}

\* the parameters the k-th target q-function and the k-th target policy
\* hold: each prefers another action
StaggeredParams(discrete, o) ==
    IF IsPolicy(o) THEN [s \in States |-> IF (o[2] + s) % 2 = 1 THEN 1 ELSE 0 - 1]
    ELSE IF discrete
         THEN [s \in States |->
                 [a \in Actions |->
                    IF (IF s = 0 THEN a ELSE Mirror(a)) = ((o[2] - 1) % NActions) + 1
                    THEN 2 * ONE ELSE ONE]]
    ELSE [s \in States |->
            [a \in BoxActions |-> IF (a = 1) = ((o[2] + s) % 2 = 1) THEN 2 * ONE ELSE ONE]]

\* the online q-function values its first action at 1.0 or 2.0
OnlineParams(discrete) ==
    {p \in QParamsOf(discrete) : \A a \in BatchActions(discrete) : a # 1 => p[0][a] = ONE}

\* before construction: the collaborators exist, on a Discrete or a Box space
Init ==
    /\ self = NoObject
    /\ \E discrete \in BOOLEAN : \E qp \in OnlineParams(discrete) :
          heap = [o \in ObjIds |->
                    [discrete |-> discrete,
                     params |-> IF o = OnlineQ THEN qp ELSE StaggeredParams(discrete, o),
                     function_state |-> 0]]
    /\ batch \in TargetBatches
    /\ ret = NoCall

\* ClippedDoubleQLearning(q, pi_targ_list, q_targ_list, loss_function=.., value_transform=..)
Construct ==
    /\ self.status = "none"
    /\ \E pi_targ_list \in ListArgs("Policy"), q_targ_list \in ListArgs("Q"),
          lf \in LossFunctions, vt \in ValueTransforms :
          /\ self' = __init__(heap[OnlineQ].discrete, pi_targ_list, q_targ_list, lf, vt)
          /\ ret' = [entry |-> "__init__", pi_targ_list |-> pi_targ_list,
                     q_targ_list |-> q_targ_list]
    /\ UNCHANGED <<heap, batch>>

\* a call of the TD-error function with the object's own parameters and bundle
TdErrorCall ==
    /\ self.status = "ok"
    /\ target_params(self, heap).error = "none"
    /\ \E rng \in Seeds :
          ret' = [entry |-> "td_error_func", rng |-> rng,
                  out |-> td_error_func(self, heap[self.q].params, target_params(self, heap),
                                        heap[self.q].function_state,
                                        target_function_state(self, heap), rng, batch)]
    /\ heap' = DiscardStates(heap, ret'.out.returned)
    /\ UNCHANGED <<self, batch>>

\* a call of the gradients-and-metrics function
GradsAndMetricsCall ==
    /\ self.status = "ok"
    /\ target_params(self, heap).error = "none"
    /\ \E rng \in Seeds :
          ret' = [entry |-> "grads_and_metrics_func", rng |-> rng,
                  out |-> grads_and_metrics_func(self, heap[self.q].params,
                                                 target_params(self, heap),
                                                 heap[self.q].function_state,
                                                 target_function_state(self, heap), rng, batch)]
    /\ heap' = DiscardStates(heap, ret'.out.returned)
    /\ UNCHANGED <<self, batch>>

\* a call of the parameter-update function on the gradients just computed
ApplyGradsCall ==
    /\ self.status = "ok"
    /\ ret.entry = "grads_and_metrics_func"
    /\ ret' = [entry |-> "apply_grads_func", rng |-> ret.rng,
               out |-> apply_grads_func(0, heap[self.q].params, ret.out.grads)]
    /\ UNCHANGED <<self, heap, batch>>

Next ==
    \/ Construct
    \/ TargetFuncCall
    \/ TdErrorCall
    \/ GradsAndMetricsCall
    \/ ApplyGradsCall

Spec == Init /\ [][Next]_vars

\* ------------------------------------------------- claims about target_func
RECURSIVE SetSum(_, _)
\* the sum of g[x] over x in S
SetSum(g, S) == IF S = {} THEN 0
                ELSE LET x == CHOOSE y \in S : TRUE IN g[x] + SetSum(g, S \ {x})

TargetCalled == ret.entry = "target_func"

\* the per-action values of the i-th target q-function at row r's S_next
QRow(i, r) == heap[self.q_targ_list[i]].params[batch.S_next[r]]

\* the actions that attain the maximum of the i-th target q-function at row r
Maximisers(i, r) == {a \in Actions : \A b \in Actions : QRow(i, r)[b] <= QRow(i, r)[a]}

\* the mode of the i-th target policy at row r's S_next
ModeAction(i, r) == heap[self.pi_targ_list.items[i]].params[batch.S_next[r]]

Selectors == IF self.discrete THEN 1..Len(self.q_targ_list)
             ELSE 1..Len(self.pi_targ_list.items)
Evaluators == 1..Len(self.q_targ_list)

\* the evaluator j's value at row r for the selector i's action: on a
\* Discrete space the mean of q_j over the greedy actions of q_i
PairValue(i, j, r) ==
    IF self.discrete
    THEN SetSum(QRow(j, r), Maximisers(i, r)) \div Cardinality(Maximisers(i, r))
    ELSE QRow(j, r)[ModeAction(i, r)]

ClippedMin(r) == Min({PairValue(i, j, r) : i \in Selectors, j \in Evaluators})

\* C1: in both branches every row of the target is f(Rn + In * f_inv(m)), m
\* the minimum over all (selector, evaluator) pairs, i = j included, of the
\* evaluator's value for the selector's action; with the identity transform
\* it is Rn + In * m
C1_TargetIsClippedMin ==
    TargetCalled =>
        \A r \in Rows :
            /\ ret.out.G[r] = f(self.value_transform,
                                batch.Rn[r] + Times(batch.In[r],
                                                    f_inv(self.value_transform, ClippedMin(r))))
            /\ self.value_transform = "identity" =>
                  ret.out.G[r] = batch.Rn[r] + (batch.In[r] * ClippedMin(r)) \div 100
            /\ Len(ret.out.Q_sa_next_list) = Cardinality(Selectors) * Cardinality(Evaluators)

\* a discrete ensemble in which a pair i # j gives the minimum, below every
\* pair i = j, on a row that bootstraps
C1_Witness ==
    /\ TargetCalled /\ self.discrete
    /\ \E r \in Rows :
          /\ batch.In[r] = 99
          /\ \A i \in Evaluators : ClippedMin(r) < PairValue(i, i, r)

\* the ensemble is two identical target q-functions on a Discrete space
TwoIdentical ==
    /\ self.discrete
    /\ Len(self.q_targ_list) = 2
    /\ heap[self.q_targ_list[1]] = heap[self.q_targ_list[2]]

\* C2: with two identical target q-functions on a Discrete space every row
\* of the target is the single-network target f(Rn + In * f_inv(max_a q)),
\* ties included; Rn = 0, In = 0.99 and a maximum of 2.0 give 1.98
C2_IdenticalPairIsSingleTarget ==
    (TargetCalled /\ TwoIdentical) =>
        \A r \in Rows :
            LET best == Max({QRow(1, r)[a] : a \in Actions})
            IN  /\ ret.out.G[r] = f(self.value_transform,
                                    batch.Rn[r] + Times(batch.In[r],
                                                        f_inv(self.value_transform, best)))
                /\ (/\ self.value_transform = "identity"
                    /\ batch.Rn[r] = 0 /\ batch.In[r] = 99
                    /\ best = 2 * ONE) => ret.out.G[r] = (198 * ONE) \div 100

\* two identical q-functions, a row on which several actions tie, bootstrapped
C2_Witness ==
    /\ TargetCalled /\ TwoIdentical
    /\ \E r \in Rows :
          /\ Cardinality(Maximisers(1, r)) >= 2
          /\ batch.In[r] = 99
          /\ QRow(1, r)[1] = 2 * ONE
          /\ self.value_transform = "identity" /\ batch.Rn[r] = 0
          /\ ret.out.G[r] = (198 * ONE) \div 100

\* C3: a row with In = 0 has the target f(Rn), whatever the target
\* q-functions and policies give at S_next, in both branches
C3_TerminalRowIsTransformedReward ==
    TargetCalled =>
        \A r \in Rows :
            batch.In[r] = 0 => ret.out.G[r] = f(self.value_transform, batch.Rn[r])

\* a terminal row under a transform that is not the identity, in the
\* continuous branch, beside q-values that are not all equal
C3_Witness ==
    /\ TargetCalled /\ ~self.discrete
    /\ self.value_transform = "shift"
    /\ \E r \in Rows :
          /\ batch.In[r] = 0 /\ batch.Rn[r] = ONE
          /\ \E i \in Selectors, j \in Evaluators : PairValue(i, j, r) # ClippedMin(r)

\* C4: in the discrete branch the next-action distribution of every target
\* q-function gives 1/k to each of the k >= 1 maximising actions of a row
\* and 0 to the others, so that the row sums to 1
C4_GreedyDistIsUniformOverTies ==
    (TargetCalled /\ self.discrete) =>
        /\ Len(ret.out.A_next_list) = Len(self.q_targ_list)
        /\ \A i \in Evaluators, r \in Rows :
              LET A_next == ret.out.A_next_list[i][r]
                  k == Cardinality(Maximisers(i, r))
              IN  /\ k >= 1
                  /\ \A a \in Actions :
                        /\ a \in Maximisers(i, r) => (A_next[a] * k = WeightOne /\ A_next[a] > 0)
                        /\ a \notin Maximisers(i, r) => A_next[a] = 0
                  /\ SumTo(A_next, NActions) = WeightOne

\* a row on which exactly two actions tie for the maximum of a target q-function
C4_Witness ==
    /\ TargetCalled /\ self.discrete
    /\ \E i \in Evaluators, r \in Rows :
          /\ Cardinality(Maximisers(i, r)) = 2
          /\ \A a \in Maximisers(i, r) : 2 * ret.out.A_next_list[i][r][a] = WeightOne

\* f is non-decreasing on the values the model forms
NonDecreasing(vt) ==
    \A x, y \in {k * ONE : k \in (0 - 3)..3} :
        x <= y => (f(vt, x) <= f(vt, y) /\ f_inv(vt, x) <= f_inv(vt, y))

\* the single-network target of the i-th target q-function at row r
OwnTarget(i, r) ==
    f(self.value_transform,
      batch.Rn[r] + Times(batch.In[r],
                          f_inv(self.value_transform, Max({QRow(i, r)[a] : a \in Actions}))))

\* C10: on a Discrete space, with a non-decreasing value transform and
\* In >= 0, the target of a row is at most the single-network target of
\* every member of the ensemble, and at most the bootstrapped value of
\* every (selector, evaluator) pair
C10_TargetIsPessimistic ==
    (TargetCalled /\ self.discrete /\ NonDecreasing(self.value_transform)) =>
        \A r \in Rows :
            batch.In[r] >= 0 =>
                /\ \A i \in Evaluators : ret.out.G[r] <= OwnTarget(i, r)
                /\ \A i \in Selectors, j \in Evaluators :
                      ret.out.G[r] <= f(self.value_transform,
                                        batch.Rn[r] + Times(batch.In[r],
                                            f_inv(self.value_transform, PairValue(i, j, r))))

\* the target is strictly below the single-network target of every member
C10_Witness ==
    /\ TargetCalled /\ self.discrete /\ NonDecreasing(self.value_transform)
    /\ \E r \in Rows :
          /\ batch.In[r] > 0
          /\ \A i \in Evaluators : ret.out.G[r] < OwnTarget(i, r)

\* -------------------------------------------- claims about the lifecycle
Constructed == ret.entry = "__init__"

\* the configurations the documentation calls invalid
InvalidConfiguration(discrete, pi_targ_list, q_targ_list) ==
    \/ q_targ_list = NoneArg
    \/ q_targ_list.tag # "list"
    \/ q_targ_list.items = <<>>
    \/ \E k \in DOMAIN q_targ_list.items : q_targ_list.items[k][1] # "Q"
    \/ discrete /\ Len(q_targ_list.items) < 2
    \/ ~discrete /\ \/ pi_targ_list = NoneArg
                    \/ pi_targ_list.tag # "list"
                    \/ pi_targ_list.items = <<>>
                    \/ \E k \in DOMAIN pi_targ_list.items : pi_targ_list.items[k][1] # "Policy"
                    \/ Len(q_targ_list.items) * Len(pi_targ_list.items) < 2

\* C5: construction raises, and yields no object, exactly for the invalid
\* configurations; a valid one is accepted with its lists as given
C5_InvalidConfigurationsRaise ==
    Constructed =>
        LET invalid == InvalidConfiguration(heap[OnlineQ].discrete,
                                            ret.pi_targ_list, ret.q_targ_list)
        IN  /\ invalid => (self.status = "raised" /\ self.error \in {"TypeError", "ValueError"})
            /\ ~invalid => /\ self.status = "ok"
                           /\ self.q_targ_list = ret.q_targ_list.items
                           /\ ret.pi_targ_list # NoneArg => self.pi_targ_list = ret.pi_targ_list

\* a Discrete space with q_targ_list = [q1]: raised
C5_Witness ==
    /\ Constructed /\ heap[OnlineQ].discrete
    /\ ret.q_targ_list = ListArg(Ids("Q", 1))
    /\ self.status = "raised"

\* a Box space with one q-function and two policies: accepted
C5_WitnessAccepted ==
    /\ Constructed /\ ~heap[OnlineQ].discrete
    /\ ret.q_targ_list = ListArg(Ids("Q", 1))
    /\ ret.pi_targ_list = ListArg(Ids("Policy", 2))
    /\ self.status = "ok"

\* the object the same arguments give with pi_targ_list absent
WithoutPiTargList(obj) ==
    __init__(obj.discrete, NoneArg, ListArg(obj.q_targ_list),
             obj.loss_function, obj.value_transform)

\* C6: on a Discrete space a supplied pi_targ_list gives a warning and no
\* error of its own, and is ignored: the target bundle and the value of
\* target_func are those of the object built without it
C6_SuppliedPiTargListIsIgnored ==
    /\ (Constructed /\ heap[OnlineQ].discrete /\ ret.pi_targ_list # NoneArg) =>
          /\ self.warned
          /\ self.status = __init__(TRUE, NoneArg, ret.q_targ_list, "mse", "identity").status
    /\ (self.status = "ok" /\ self.discrete /\ self.warned) =>
          /\ target_params(self, heap) = target_params(WithoutPiTargList(self), heap)
          /\ target_function_state(self, heap)
                = target_function_state(WithoutPiTargList(self), heap)
          /\ TargetCalled =>
                ret.out.G = target_func(WithoutPiTargList(self),
                                        target_params(WithoutPiTargList(self), heap),
                                        target_function_state(WithoutPiTargList(self), heap),
                                        ret.rng, batch).G

\* the online q-function's value at row r's (S, A), not in training mode
OnlineValue(r) == heap[self.q].params[batch.S[r]][batch.A[r]]

\* the value target_func returns for the batch and the object's bundle
TargetOfBatch(rng) ==
    target_func(self, target_params(self, heap), target_function_state(self, heap),
                rng, batch).G

\* C7: the TD-error is -dLoss/dQ at (G, Q), G the value of target_func and Q
\* the online q-function at (S, A) outside training mode; it is the residual
\* G - Q for the squared error, whose derivative is Q - G
C7_TdErrorIsNegativeLossGradient ==
    ret.entry = "td_error_func" =>
        \A r \in Rows :
            LET G == TargetOfBatch(NextKey(ret.rng, 1))[r]
                Q == OnlineValue(r)
                slope == IF self.loss_function = "mse" THEN Q - G
                         ELSE IF Q - G > ONE THEN ONE
                         ELSE IF Q - G < 0 - ONE THEN 0 - ONE
                         ELSE Q - G
            IN  /\ ret.out.td[r] = 0 - slope
                /\ self.loss_function = "mse" => ret.out.td[r] = G - Q

\* a TD-error under the Huber loss that is not the residual G - Q
C7_Witness ==
    /\ ret.entry = "td_error_func"
    /\ self.loss_function = "huber"
    /\ \E r \in Rows :
          ret.out.td[r] # TargetOfBatch(NextKey(ret.rng, 1))[r] - OnlineValue(r)

CallEntries == {"target_func", "td_error_func", "grads_and_metrics_func", "apply_grads_func"}

ExpectedDraws(rng) ==
    LET n == Len(self.q_targ_list)
        blocks == IF self.discrete THEN n ELSE Len(self.pi_targ_list.items)
    IN  [t \in 1..(blocks * (n + 1)) |->
            LET i == ((t - 1) \div (n + 1)) + 1
                j == (t - 1) % (n + 1)
            IN  IF j = 0
                THEN Draw(IF self.discrete THEN "q_targ" ELSE "pi_targ",
                          IF self.discrete THEN "type2" ELSE "function", i, rng \o <<t>>)
                ELSE Draw("q_targ", "type1", j, rng \o <<t>>)]

\* C9: target_func draws one fresh sub-seed per collaborator call, in the
\* order selector, evaluators in list order, selector by selector; the loss
\* computation gives target_func its first sub-seed and the online
\* q-function its second
C9_SubSeedsInFixedOrder ==
    /\ TargetCalled =>
          /\ ret.out.draws = ExpectedDraws(ret.rng)
          /\ \A s, t \in DOMAIN ret.out.draws :
                s # t => ret.out.draws[s].key # ret.out.draws[t].key
    /\ ret.entry = "grads_and_metrics_func" =>
          LET loss_rng == ret.rng \o <<1>>
              expected == ExpectedDraws(loss_rng \o <<1>>)
          IN  /\ SubSeq(ret.out.draws, 1, Len(expected)) = expected
              /\ ret.out.draws[Len(expected) + 1] = Draw("q", "type1", 0, loss_rng \o <<2>>)
              /\ \A s, t \in DOMAIN ret.out.draws :
                    s # t => ret.out.draws[s].key # ret.out.draws[t].key

\* a call on a discrete ensemble of two or more: n + n^2 draws
C9_Witness ==
    /\ TargetCalled /\ self.discrete
    /\ Len(self.q_targ_list) >= 2
    /\ Len(ret.out.draws) = Len(self.q_targ_list) * (Len(self.q_targ_list) + 1)

====
